---- MODULE Spec2Model ----
(***************************************************************************)
(* A model of journal_hours.py: main() and the journal parser process().   *)
(*                                                                         *)
(* Dates are day ordinals.  A datetime is a number of seconds: the         *)
(* datetime of day d at minute-of-day hm is d * SecondsPerDay + hm * 60,   *)
(* so that datetimes compare and subtract as Python's do and              *)
(* timedelta(days=1) is SecondsPerDay.  Python's None is NONE.             *)
(***************************************************************************)
EXTENDS Integers, Sequences, FiniteSets, TLC

VARIABLES
    pc,                 \* where the run is: "main", "process", "filter", "output", "exit"
    args_start,         \* args.start, a member of DateArgs
    args_end,           \* args.end, a member of DateArgs
    start_date,         \* main's start_date (NONE for None)
    end_date,           \* main's end_date
    clock,              \* the earliest instant the wall clock can show at its next reading
    line_number,        \* process: index of the next line of the journal
    current_date,       \* process: current_date (NONE for None)
    current_interval,   \* process: current_interval, a list of datetimes
    intervals_by_date,  \* intervals_by_date, [(date, [(start, end)])]: of process, then
                        \* of main, which rebinds it to the filtered list (lines 53-62)
    args_json,          \* args.json, drawn where main reads it
    args_rate,          \* args.rate, <<>> for None, drawn where main reads it
    args_retainer,      \* args.retainer, <<>> for None, drawn where main reads it
    stdout,             \* the kinds of the lines printed to stdout, in order
    out_lines,          \* main: the elapsed seconds of the per-day lines of out_lines
    total_elapsed,      \* main: total_elapsed in seconds (NONE before it is computed)
    total_due,          \* main: total_due in 1/3600 dollars, <<>> for None
    error,              \* the failure reported on stderr ("" for none)
    error_line,         \* the line number its message cites (NONE when it cites none)
    exit_status         \* the exit status of the run (NONE while running)

mainVars == <<args_start, args_end, start_date, end_date>>
processVars == <<line_number, current_date, current_interval, intervals_by_date>>
outputVars == <<args_json, args_rate, args_retainer, stdout, out_lines,
                total_elapsed, total_due>>
exitVars == <<error, error_line, exit_status>>

vars == <<pc, mainVars, clock, processVars, outputVars, exitVars>>

(* ------------------------------ bounds --------------------------------- *)
MaxDate == 2
MaxMinute == 1
MaxLines == 5

(* ----------------------------- constants ------------------------------- *)
SecondsPerMinute == 60
SecondsPerDay == 86400
SecondsPerHour == 3600

NONE == -1

Dates == 1..MaxDate
Minutes == 0..MaxMinute

(* ------------------------- the lines of a journal ---------------------- *)
(* A stripped line, by what the parsers read of it:                        *)
(*   ymd    the date the whole line parses to under DATE_FORMAT, or NONE   *)
(*   space  whether the line holds a ' '                                   *)
(*   action the text before the first ' '                                  *)
(*   hm     the minute of the day the text after the first ' ' parses to   *)
(*          under TIME_FORMAT, or NONE                                     *)
DateLines ==
    {[ymd |-> d, space |-> FALSE, action |-> "", hm |-> NONE] : d \in Dates}

SpacedLines ==
    {[ymd |-> NONE, space |-> TRUE, action |-> a, hm |-> t] :
        a \in {"start", "end", "stop"}, t \in Minutes \cup {NONE}}

PlainLines ==
    {[ymd |-> NONE, space |-> FALSE, action |-> "", hm |-> NONE]}

Lines == DateLines \cup SpacedLines \cup PlainLines

(* ------------------------------ helpers -------------------------------- *)
assemble_datetime(d, t) == d * SecondsPerDay + t * SecondsPerMinute

force_date(dt) == dt \div SecondsPerDay

parse_date(line) == line.ymd

\* parse_time without its check of current_date
parse_time_unchecked(line, cur_date) ==
    IF ~line.space \/ line.action \notin {"start", "end"} \/ line.hm = NONE
    THEN [kind |-> "none", action |-> "", t |-> NONE]
    ELSE [kind |-> "ok", action |-> line.action,
          t |-> assemble_datetime(cur_date, line.hm)]

\* parse_time checking current_date for a start only
parse_time_start_checked(line, cur_date) ==
    IF ~line.space \/ line.action \notin {"start", "end"} \/ line.hm = NONE
    THEN [kind |-> "none", action |-> "", t |-> NONE]
    ELSE IF cur_date = NONE /\ line.action = "start"
    THEN [kind |-> "raise", action |-> line.action, t |-> NONE]
    ELSE [kind |-> "ok", action |-> line.action,
          t |-> assemble_datetime(cur_date, line.hm)]

\* parse_time checking current_date before it looks at the line
parse_time_date_first(line, cur_date) ==
    IF cur_date = NONE
    THEN [kind |-> "raise", action |-> line.action, t |-> NONE]
    ELSE IF ~line.space \/ line.action \notin {"start", "end"} \/ line.hm = NONE
    THEN [kind |-> "none", action |-> "", t |-> NONE]
    ELSE [kind |-> "ok", action |-> line.action,
          t |-> assemble_datetime(cur_date, line.hm)]

parse_time(line, cur_date) ==
    IF ~line.space THEN [kind |-> "none", action |-> "", t |-> NONE]
    ELSE IF line.action \notin {"start", "end"}
        THEN [kind |-> "none", action |-> "", t |-> NONE]
    ELSE IF line.hm = NONE
        THEN [kind |-> "none", action |-> "", t |-> NONE]
    ELSE IF cur_date = NONE
        THEN [kind |-> "raise", action |-> line.action, t |-> NONE]
    ELSE [kind |-> "ok", action |-> line.action,
          t |-> assemble_datetime(cur_date, line.hm)]

Last(s) == s[Len(s)]

\* intervals_by_date[-1][1].append(iv)
AppendToLast(ibd, iv) ==
    [ibd EXCEPT ![Len(ibd)] = <<ibd[Len(ibd)][1], Append(ibd[Len(ibd)][2], iv)>>]

\* the end of the interval as recorded: an end before its start is past midnight
CloseEnd(s, e) == IF s > e THEN e + SecondsPerDay ELSE e

\* a date header taking over the section of the header before it when that has
\* no interval
NewSection_reusing_empty(ibd, d) ==
    IF Len(ibd) > 0 /\ Len(Last(ibd)[2]) = 0
    THEN [ibd EXCEPT ![Len(ibd)] = <<d, <<>>>>]
    ELSE Append(ibd, <<d, <<>>>>)

\* line 159: intervals_by_date.append((current_date, []))
NewSection(ibd, d) == Append(ibd, <<d, <<>>>>)

\* the date check letting a repeated date through
DateOutOfOrder_earlier_only(ibd, d) == Len(ibd) > 0 /\ d < Last(ibd)[1]

DateOutOfOrder(ibd, d) == Len(ibd) > 0 /\ d <= Last(ibd)[1]

\* The wall clock.  datetime.now() reads an instant and date.today() the date of
\* one; no reading is before an earlier one.  After date.today() = d all that is
\* known of the clock is that it is past the start of day d.
Instants ==
    {assemble_datetime(d, t) + s : d \in Dates, t \in Minutes, s \in {0, 30}}

StartOfDay(d) == assemble_datetime(d, 0)

Max(a, b) == IF a >= b THEN a ELSE b

TodayReadings(after) == {d \in Dates : StartOfDay(d + 1) > after}

NowReadings(after) == {c \in Instants : c >= after}

\* a date argument of the command line, by what parse_date reads of it
AbsentArg == [given |-> FALSE, ymd |-> NONE]

DateArgs ==
    {AbsentArg} \cup {[given |-> TRUE, ymd |-> d] : d \in Dates \cup {NONE}}

\* lines 35-37: end_date once the default is filled in, today read from the clock
DefaultEnd(ed, today) == IF ed = NONE THEN today ELSE ed

\* lines 39-47: what main rejects the date arguments for ("" when it accepts them)
ArgsError(s, e, sd, ed) ==
    IF sd = NONE /\ s.given THEN "invalid_start"
    ELSE IF ed = NONE /\ e.given THEN "invalid_end"
    ELSE IF sd # NONE /\ ed < sd THEN "end_before_start"
    ELSE ""

\* a start accepted while one is pending
StartExpected_while_pending(ci) == Len(ci) <= 1

StartExpected(ci) == Len(ci) = 0

EndExpected(ci) == Len(ci) = 1

\* the open interval closed at now when it starts at now
ClosesNow_inclusive(start, now) == start <= now

\* line 187: the open interval is closed at now
ClosesNow(start, now) == start < now

\* the range of dates without its first day
InRange_exclusive_start(section, sd, ed) ==
    /\ Len(section[2]) > 0
    /\ (sd = NONE \/ section[1] > sd)
    /\ (ed = NONE \/ section[1] <= ed)

\* lines 57-61: the sections main keeps
InRange(section, sd, ed) ==
    /\ Len(section[2]) > 0
    /\ (sd = NONE \/ section[1] >= sd)
    /\ (ed = NONE \/ section[1] <= ed)

FilterRange(ibd, sd, ed) ==
    LET Keep(section) == InRange(section, sd, ed)
    IN  SelectSeq(ibd, Keep)

\* the time from the first start to the last end
interval_sum_span(intervals) ==
    IF Len(intervals) = 0 THEN 0
    ELSE Last(intervals)[2] - intervals[1][1]

RECURSIVE interval_sum(_)
interval_sum(intervals) ==
    IF Len(intervals) = 0 THEN 0
    ELSE interval_sum(SubSeq(intervals, 1, Len(intervals) - 1))
         + (Last(intervals)[2] - Last(intervals)[1])

\* all_intervals of lines 88-91
RECURSIVE flatten(_)
flatten(ibd) ==
    IF Len(ibd) = 0 THEN <<>>
    ELSE flatten(SubSeq(ibd, 1, Len(ibd) - 1)) \o Last(ibd)[2]

\* lines 90-92: elapsed, day by day
DayElapsed(ibd) == [i \in 1..Len(ibd) |-> interval_sum(ibd[i][2])]

\* the values of --rate and --retainer (type=int), <<>> when the option is absent
Rates == {<<>>} \cup {<<r>> : r \in {-1, 50}}

Retainers == {<<>>} \cup {<<r>> : r \in {0, 100}}

\* Python's truth value of an optional int
Truthy(opt) == opt # <<>> /\ opt[1] # 0

\* lines 125-128: total_hours * args.rate.  Money is in 1/3600 dollars, so that
\* total_hours = seconds / (60 * 60) stays a whole number.
GrossDue(seconds, rate) == IF rate # <<>> THEN <<seconds * rate[1]>> ELSE <<>>

\* the retainer subtracted without the floor at zero
NetDue_unfloored(gross, retainer) ==
    IF Truthy(retainer) /\ gross # <<>>
    THEN <<gross[1] - retainer[1] * SecondsPerHour>>
    ELSE gross

\* lines 130-133, reached with a rate
NetDue(gross, retainer) ==
    IF Truthy(retainer) /\ gross # <<>>
    THEN <<Max(0, gross[1] - retainer[1] * SecondsPerHour)>>
    ELSE gross


(* ------------------------------ the run -------------------------------- *)
Init ==
    /\ pc = "main"
    /\ args_start = AbsentArg
    /\ args_end = AbsentArg
    /\ start_date = NONE
    /\ end_date = NONE
    /\ clock = 0
    /\ line_number = 0
    /\ current_date = NONE
    /\ current_interval = <<>>
    /\ intervals_by_date = <<>>
    /\ args_json = FALSE
    /\ args_rate = <<>>
    /\ args_retainer = <<>>
    /\ stdout = <<>>
    /\ out_lines = <<>>
    /\ total_elapsed = NONE
    /\ total_due = <<>>
    /\ error = ""
    /\ error_line = NONE
    /\ exit_status = NONE

\* the failure caught and the run going on with what was parsed
Raise_caught(kind, cited) ==
    /\ pc' = "filter"
    /\ error' = kind
    /\ error_line' = cited
    /\ exit_status' = NONE

\* the run ends with a failure: sys.exit(1), or an exception nothing catches
Raise(kind, cited) ==
    /\ pc' = "exit"
    /\ error' = kind
    /\ error_line' = cited
    /\ exit_status' = 1

\* lines 30-51 of main(): the date arguments, then the journal is read
MainArgs ==
    /\ pc = "main"
    /\ \E s \in DateArgs, e \in DateArgs :
        /\ e.given => s.given
        /\ \E today \in (IF parse_date(e) = NONE THEN TodayReadings(clock) ELSE {NONE}) :
            LET sd == parse_date(s)
                ed == DefaultEnd(parse_date(e), today)
                invalid == ArgsError(s, e, sd, ed)
            IN  /\ args_start' = s
                /\ args_end' = e
                /\ start_date' = sd
                /\ end_date' = ed
                /\ clock' = IF today = NONE THEN clock ELSE Max(clock, StartOfDay(today))
                /\ IF invalid # ""
                   THEN Raise(invalid, NONE)
                   ELSE /\ pc' = "process"
                        /\ UNCHANGED exitVars
    /\ UNCHANGED <<processVars, outputVars>>

\* one iteration of the loop of process()
ProcessLine(line) ==
    /\ pc = "process"
    /\ line_number < MaxLines
    /\ line_number' = line_number + 1
    /\ UNCHANGED <<mainVars, clock, outputVars>>
    /\ LET d == parse_date(line)
           cd == IF d # NONE THEN d ELSE current_date
           ibd == IF d # NONE THEN NewSection(intervals_by_date, cd)
                  ELSE intervals_by_date
           tr == parse_time(line, cd)
       IN  IF d # NONE /\ DateOutOfOrder(intervals_by_date, d)
           THEN /\ Raise("date_order", line_number)
                /\ current_date' = cd
                /\ UNCHANGED <<current_interval, intervals_by_date>>
           ELSE IF tr.kind = "raise"
           THEN /\ Raise("no_date", NONE)
                /\ current_date' = cd
                /\ intervals_by_date' = ibd
                /\ UNCHANGED current_interval
           ELSE IF tr.kind = "none"
           THEN /\ current_date' = cd
                /\ intervals_by_date' = ibd
                /\ UNCHANGED <<pc, current_interval, exitVars>>
           ELSE IF tr.action = "start"
           THEN IF StartExpected(current_interval)
                THEN /\ current_interval' = Append(current_interval, tr.t)
                     /\ current_date' = cd
                     /\ intervals_by_date' = ibd
                     /\ UNCHANGED <<pc, exitVars>>
                ELSE /\ Raise("unexpected_start", line_number)
                     /\ current_date' = cd
                     /\ intervals_by_date' = ibd
                     /\ UNCHANGED current_interval
           ELSE IF EndExpected(current_interval)
                THEN /\ intervals_by_date' =
                            AppendToLast(ibd, <<current_interval[1],
                                                CloseEnd(current_interval[1], tr.t)>>)
                     /\ current_interval' = <<>>
                     /\ current_date' = cd
                     /\ UNCHANGED <<pc, exitVars>>
                ELSE /\ Raise("unexpected_end", line_number)
                     /\ current_date' = cd
                     /\ intervals_by_date' = ibd
                     /\ UNCHANGED current_interval

ReadLine == \E line \in Lines : ProcessLine(line)

\* lines 183-191 of process(): the journal has no more lines, process returns
\* intervals_by_date and its other variables are gone.  today is what
\* date.today() reads and now what datetime.now() reads after it (NONE for a
\* reading the code does not take).
EndOfInputAt(today, now) ==
    /\ pc = "process"
    /\ today \in (IF Len(current_interval) = 1 THEN TodayReadings(clock) ELSE {NONE})
    /\ now \in (IF today # NONE /\ current_date = today
                THEN NowReadings(Max(clock, StartOfDay(today))) ELSE {NONE})
    /\ pc' = "filter"
    /\ intervals_by_date' =
            IF /\ Len(current_interval) = 1
               /\ current_date = today
               /\ ClosesNow(current_interval[1], now)
            THEN AppendToLast(intervals_by_date, <<current_interval[1], now>>)
            ELSE intervals_by_date
    /\ clock' = IF now # NONE THEN now
                ELSE IF today # NONE THEN Max(clock, StartOfDay(today))
                ELSE clock
    /\ line_number' = NONE
    /\ current_date' = NONE
    /\ current_interval' = <<>>
    /\ UNCHANGED <<mainVars, outputVars, exitVars>>

EndOfInput ==
    \E today \in Dates \cup {NONE}, now \in Instants \cup {NONE} :
        EndOfInputAt(today, now)

\* lines 54-68 of main(): the date range, then the default start date
Filter ==
    /\ pc = "filter"
    /\ LET kept == FilterRange(intervals_by_date, start_date, end_date)
       IN  /\ intervals_by_date' = kept
           /\ IF start_date = NONE /\ Len(kept) = 0
              THEN /\ Raise("no_intervals", NONE)
                   /\ UNCHANGED start_date
              ELSE /\ start_date' = IF start_date = NONE THEN kept[1][1] ELSE start_date
                   /\ pc' = "output"
                   /\ UNCHANGED exitVars
    /\ UNCHANGED <<args_start, args_end, end_date, clock, line_number, current_date,
                   current_interval, outputVars>>

\* lines 71-79 of main(): --json
OutputJson ==
    /\ pc = "output"
    /\ args_json' = TRUE
    /\ stdout' = <<"json">>
    /\ pc' = "exit"
    /\ exit_status' = 0
    /\ UNCHANGED <<mainVars, clock, processVars, args_rate, args_retainer, out_lines,
                   total_elapsed, total_due, error, error_line>>

\* lines 81-142 of main(): the text report
OutputText(rate, retainer) ==
    /\ pc = "output"
    /\ args_json' = FALSE
    /\ args_rate' = rate
    /\ args_retainer' = retainer
    /\ out_lines' = DayElapsed(intervals_by_date)
    /\ LET total == interval_sum(flatten(intervals_by_date))
           gross == GrossDue(total, rate)
       IN  /\ total_elapsed' = total
           /\ IF total = 0
              THEN /\ stdout' = <<"dates", "no_hours">>
                   /\ total_due' = <<>>
                   /\ Raise("", NONE)
              ELSE IF Truthy(retainer) /\ gross = <<>>
              THEN \* '{:.2f}'.format(None) raises TypeError
                   /\ stdout' = <<"dates", "hours", "total">>
                   /\ total_due' = gross
                   /\ Raise("type_error", NONE)
              ELSE /\ stdout' = <<"dates", "hours", "total">>
                              \o (IF rate # <<>> THEN <<"rate">> ELSE <<>>)
                              \o (IF Truthy(retainer) THEN <<"gross", "retainer">> ELSE <<>>)
                              \o (IF gross # <<>> THEN <<"due">> ELSE <<>>)
                   /\ total_due' = NetDue(gross, retainer)
                   /\ pc' = "exit"
                   /\ exit_status' = 0
                   /\ UNCHANGED <<error, error_line>>
    /\ UNCHANGED <<mainVars, clock, processVars>>

Output ==
    \/ OutputJson
    \/ \E rate \in Rates, retainer \in Retainers : OutputText(rate, retainer)

Next ==
    \/ MainArgs
    \/ ReadLine
    \/ EndOfInput
    \/ Filter
    \/ Output

Spec == Init /\ [][Next]_vars

(* ------------------------------ the claims ----------------------------- *)
Sections == 1..Len(intervals_by_date)

\* every interval recorded so far, as <<section, start, end>>
Recorded ==
    UNION {{<<i, intervals_by_date[i][2][j][1], intervals_by_date[i][2][j][2]>> :
                j \in 1..Len(intervals_by_date[i][2])} : i \in Sections}

\* a well-formed time marker: "<action> HH:MM"
IsMarker(line, action) == line.space /\ line.action = action /\ line.hm # NONE

Pending == Len(current_interval) = 1

\* C1: in every result process() returns, every interval of every day-section
\* has its start strictly before its end.
C1_EveryIntervalStartsBeforeItsEnd ==
    pc = "filter" =>
        \A i \in Sections : \A j \in 1..Len(intervals_by_date[i][2]) :
            intervals_by_date[i][2][j][1] < intervals_by_date[i][2][j][2]

\* C2: a well-formed start marker read while a start is pending ends the run
\* with the unexpected-start error, and process() returns nothing.
C2_SecondStartIsRejected ==
    [][\A line \in Lines :
        (Pending /\ IsMarker(line, "start") /\ ProcessLine(line))
            => (pc' = "exit" /\ error' = "unexpected_start" /\ exit_status' = 1
                /\ intervals_by_date' = intervals_by_date)]_vars

\* C2's case: the second start is rejected although a date header came after
\* the pending one.
C2_Witness ==
    /\ error = "unexpected_start"
    /\ Pending
    /\ current_date # force_date(current_interval[1])

\* C3 as stated: a well-formed end marker read with no start pending raises the
\* unexpected-end error in every state of the assembler.
C3_EndWithoutStartIsUnexpectedEnd ==
    [][\A line \in Lines :
        (~Pending /\ IsMarker(line, "end") /\ ProcessLine(line))
            => (pc' = "exit" /\ error' = "unexpected_end")]_vars

\* C3 as amended: a well-formed end marker read with no start pending raises
\* the unexpected-end error once a date header has been seen, and the
\* no-date-context error before the first date header.
C3_EndWithoutStartIsRejected ==
    [][\A line \in Lines :
        (~Pending /\ IsMarker(line, "end") /\ ProcessLine(line))
            => /\ pc' = "exit"
               /\ exit_status' = 1
               /\ error' = IF current_date = NONE THEN "no_date" ELSE "unexpected_end"]_vars

\* C3's case: an end marker was rejected as unexpected after an interval was
\* closed under a date header.
C3_Witness ==
    /\ error = "unexpected_end"
    /\ current_date # NONE
    /\ Recorded # {}

\* C4: a well-formed time marker read before the first date header ends the run
\* with the no-date-context error, so while current_date is unset there is no
\* pending start and no interval.
C4_MarkerBeforeAnyDateIsRejected ==
    [][/\ \A line \in Lines :
            (/\ current_date = NONE
             /\ IsMarker(line, "start") \/ IsMarker(line, "end")
             /\ ProcessLine(line))
                => (pc' = "exit" /\ error' = "no_date" /\ exit_status' = 1)
       /\ (current_date' = NONE /\ (pc' = "process" \/ error' = "no_date"))
            => (current_interval' = <<>> /\ intervals_by_date' = <<>>)]_vars

\* C4's case: a marker was rejected for want of a date, after ignored lines.
C4_Witness ==
    /\ error = "no_date"
    /\ line_number > 1
    /\ current_date = NONE

StrictlyIncreasingDates(ibd) ==
    \A i \in 1..Len(ibd) : \A j \in 1..Len(ibd) :
        i < j => ibd[i][1] < ibd[j][1]

\* C5: a date header equal to or earlier than the date of the last day-section
\* ends the run with the date-order error, and the dates of the day-sections
\* are strictly increasing in every state.
C5_DatesStrictlyIncrease ==
    [][/\ \A line \in Lines :
            (/\ parse_date(line) # NONE
             /\ Len(intervals_by_date) > 0
             /\ parse_date(line) <= intervals_by_date[Len(intervals_by_date)][1]
             /\ ProcessLine(line))
                => (pc' = "exit" /\ error' = "date_order" /\ exit_status' = 1)
       /\ StrictlyIncreasingDates(intervals_by_date')]_vars

\* C5's case: a header repeating the date of the last day-section was rejected.
C5_Witness ==
    /\ error = "date_order"
    /\ Len(intervals_by_date) > 0
    /\ current_date = intervals_by_date[Len(intervals_by_date)][1]

\* C6: at end of input a pending start adds exactly the interval
\* (pending start, now) to the last day-section if and only if current_date is
\* today and the pending start is strictly before now; otherwise nothing is
\* recorded for it; no error is raised either way.
C6_OpenIntervalClosedNowOnlyToday ==
    [][\A today \in Dates \cup {NONE}, now \in Instants \cup {NONE} :
        (Pending /\ EndOfInputAt(today, now))
            => /\ pc' = "filter"
               /\ error' = ""
               /\ exit_status' = NONE
               /\ today # NONE
               /\ intervals_by_date' =
                    IF current_date = today /\ now # NONE /\ current_interval[1] < now
                    THEN [intervals_by_date EXCEPT ![Len(intervals_by_date)][2] =
                            Append(@, <<current_interval[1], now>>)]
                    ELSE intervals_by_date]_vars

\* C6's case: process() returned with an interval closed at a wall-clock
\* reading (only a reading of the clock is off the minute).
C6_Witness ==
    /\ pc = "filter"
    /\ \E r \in Recorded : r[3] % SecondsPerMinute # 0

InvalidDateArgs ==
    \/ args_start.given /\ parse_date(args_start) = NONE
    \/ args_end.given /\ parse_date(args_end) = NONE
    \/ /\ parse_date(args_start) # NONE
       /\ parse_date(args_end) # NONE
       /\ parse_date(args_end) < parse_date(args_start)

\* C7: a run given an unparseable start date, an unparseable end date or an end
\* date before the start date is rejected: it exits with a non-zero status
\* instead of going on to the journal.
C7_InvalidDateArgsExitNonZero ==
    InvalidDateArgs => (pc = "exit" /\ exit_status # 0)

\* main got as far as filtering the result of process()
Filtered ==
    \/ pc = "output"
    \/ pc = "exit" /\ (stdout # <<>> \/ error \in {"no_intervals", "type_error"})

\* C8: a run whose selected date range holds no interval exits with a non-zero
\* status, with --json or without, with a start date or without.
C8_NoHoursExitsNonZero ==
    (pc = "exit" /\ Filtered /\ Recorded = {}) => exit_status # 0

\* the indices of the day-sections the date range [sd, ed] keeps
KeptIndices(ibd, sd, ed) ==
    {i \in 1..Len(ibd) :
        /\ Len(ibd[i][2]) > 0
        /\ (sd = NONE \/ sd <= ibd[i][1])
        /\ ibd[i][1] <= ed}

\* the k-th smallest member of a set of numbers
Nth(S, k) == CHOOSE i \in S : Cardinality({j \in S : j <= i}) = k

DueReported == pc = "exit" /\ Len(stdout) > 0 /\ stdout[Len(stdout)] = "due"

\* C10 as stated: the amount due is hours * rate without a retainer and
\* max(0, hours * rate - retainer) with one, and is never negative.
C10_DueIsGrossLessRetainerNeverNegative ==
    DueReported =>
        /\ total_due[1] =
                IF args_retainer = <<>> THEN total_elapsed * args_rate[1]
                ELSE Max(0, total_elapsed * args_rate[1]
                            - args_retainer[1] * SecondsPerHour)
        /\ total_due[1] >= 0

\* C10 as amended: the amount due is hours * rate without a retainer or with a
\* retainer of 0, and max(0, hours * rate - retainer) with any other retainer;
\* it is never negative when the rate is not negative.
C10_DueIsGrossLessRetainer ==
    DueReported =>
        /\ total_due[1] =
                IF args_retainer = <<>> \/ args_retainer[1] = 0
                THEN total_elapsed * args_rate[1]
                ELSE Max(0, total_elapsed * args_rate[1]
                            - args_retainer[1] * SecondsPerHour)
        /\ args_rate[1] >= 0 => total_due[1] >= 0

\* C10's case: the retainer exceeds the gross amount and the amount due is 0.
C10_Witness ==
    /\ DueReported
    /\ args_retainer # <<>>
    /\ args_rate[1] > 0
    /\ total_elapsed * args_rate[1] < args_retainer[1] * SecondsPerHour
    /\ total_due = <<0>>

\* C11 as stated: an end marker whose datetime is not after the pending start
\* (start >= end) is moved one day on, and the interval is appended to the
\* current day-section with the pending start cleared and no error.
C11_EndNotAfterStartRollsOver ==
    [][\A line \in Lines :
        (/\ Pending
         /\ IsMarker(line, "end")
         /\ current_interval[1] >= assemble_datetime(current_date, line.hm)
         /\ ProcessLine(line))
            => /\ intervals_by_date' =
                    [intervals_by_date EXCEPT ![Len(intervals_by_date)][2] =
                        Append(@, <<current_interval[1],
                                    assemble_datetime(current_date, line.hm)
                                        + SecondsPerDay>>)]
               /\ current_interval' = <<>>
               /\ error' = ""
               /\ pc' = "process"]_vars

\* C12: the date of the start of every recorded interval is the date of the
\* day-section that holds it.
C12_IntervalInSectionOfItsStart ==
    (pc \in {"process", "filter"}) =>
        \A r \in Recorded : force_date(r[2]) = intervals_by_date[r[1]][1]

StructuralErrors == {"date_order", "unexpected_start", "unexpected_end", "no_date"}

\* C13: every structural error cites the 1-based number of the line that
\* raised it, which is the number of lines read when it is raised.
C13_ErrorCitesOneBasedLine ==
    error \in StructuralErrors => error_line = line_number

\* neither a date header nor a well-formed time marker
IsIgnored(line) ==
    /\ parse_date(line) = NONE
    /\ ~IsMarker(line, "start")
    /\ ~IsMarker(line, "end")

\* C14: a line that is neither a date header nor a well-formed time marker
\* changes nothing of the assembler and raises no error, in every state.
C14_IgnoredLineChangesNothing ==
    [][\A line \in Lines :
        (IsIgnored(line) /\ ProcessLine(line))
            => /\ UNCHANGED <<current_date, current_interval, intervals_by_date>>
               /\ pc' = "process"
               /\ UNCHANGED exitVars]_vars

\* C14's case: lines were ignored before the first date header.
C14_Witness ==
    /\ pc = "process"
    /\ line_number > 1
    /\ current_date = NONE

\* C15: a run that process() ends with a structural error prints nothing to
\* stdout and exits with a failure, whatever was parsed before the error.
C15_StructuralErrorPrintsNothing ==
    error \in StructuralErrors =>
        (pc = "exit" /\ exit_status = 1 /\ stdout = <<>>)

\* C15's case: the error came after an interval had been recorded.
C15_Witness ==
    /\ error \in StructuralErrors
    /\ Recorded # {}
    /\ line_number >= 4

\* C18: the date main takes for the default end date, the date process takes
\* for today and the instant it closes the open interval at are one reading of
\* the clock.
C18_ClockIsReadOnce ==
    [][\A today \in Dates, now \in Instants \cup {NONE} :
        (Pending /\ EndOfInputAt(today, now))
            => /\ now # NONE => force_date(now) = today
               /\ parse_date(args_end) = NONE => end_date = today]_vars

\* C19: at most one start is pending after every line, and the time markers a
\* journal is accepted with alternate start, end, start, end from a start.
C19_MarkersAlternate ==
    [][/\ Len(current_interval') <= 1
       /\ \A line \in Lines :
            (ProcessLine(line) /\ pc' = "process")
                => /\ IsMarker(line, "start") => (~Pending /\ Pending')
                   /\ IsMarker(line, "end") => (Pending /\ ~Pending')
                   /\ IsIgnored(line) \/ parse_date(line) # NONE
                        => (Pending' <=> Pending)]_vars

\* C19's case: a start, an end and a second start were accepted.
C19_Witness ==
    /\ pc = "process"
    /\ Pending
    /\ Recorded # {}

\* C20: every interval process() records starts at or after the end of the
\* interval recorded before it, within a day-section and across day-sections.
C20_IntervalsDoNotOverlap ==
    (pc \in {"process", "filter"}) =>
        LET all == flatten(intervals_by_date)
        IN  \A k \in 1..(Len(all) - 1) : all[k][2] <= all[k + 1][1]

SectionDates(ibd) == [i \in 1..Len(ibd) |-> ibd[i][1]]

\* C16: a date header that is accepted sets current_date and appends an empty
\* day-section, leaving the pending start and the earlier sections as they
\* are; no other line and not the end of input adds, drops or reorders a
\* section: process() returns one section per date header, in file order.
C16_OneSectionPerDateHeader ==
    [][/\ \A line \in Lines :
            (ProcessLine(line) /\ pc' = "process")
                => IF parse_date(line) # NONE
                   THEN /\ intervals_by_date' =
                                Append(intervals_by_date, <<parse_date(line), <<>>>>)
                        /\ current_date' = parse_date(line)
                        /\ current_interval' = current_interval
                   ELSE SectionDates(intervals_by_date') = SectionDates(intervals_by_date)
       /\ (pc = "process" /\ pc' = "filter")
            => SectionDates(intervals_by_date') = SectionDates(intervals_by_date)]_vars

\* C16's case: process() returned a section without intervals before one with.
C16_Witness ==
    /\ pc = "filter"
    /\ Len(intervals_by_date) >= 2
    /\ intervals_by_date[1][2] = <<>>
    /\ intervals_by_date[2][2] # <<>>

RECURSIVE SeqSum(_)
SeqSum(s) == IF Len(s) = 0 THEN 0 ELSE SeqSum(SubSeq(s, 1, Len(s) - 1)) + s[Len(s)]

\* C17: interval_sum of no interval is zero, interval_sum of two lists joined
\* is the sum of their interval_sums, and the total main reports is the sum of
\* the per-day totals it prints.
C17_IntervalSumIsAdditive ==
    /\ interval_sum(<<>>) = 0
    /\ \A i \in Sections, j \in Sections :
            interval_sum(intervals_by_date[i][2] \o intervals_by_date[j][2])
                = interval_sum(intervals_by_date[i][2])
                  + interval_sum(intervals_by_date[j][2])
    /\ (pc = "exit" /\ total_elapsed # NONE) => total_elapsed = SeqSum(out_lines)

\* C17's case: a report was printed with the totals of two days.
C17_Witness ==
    /\ pc = "exit"
    /\ exit_status = 0
    /\ Len(out_lines) >= 2
    /\ total_elapsed > 0

====
